---- MODULE Spec2Model ----
(***************************************************************************)
(* Model of sez_to_ecef.py: a script that reads six command-line           *)
(* arguments (origin latitude, longitude, height; SEZ s, e, z), converts   *)
(* the SEZ vector to ECEF by two rotations and a translation, and prints   *)
(* the three ECEF components.                                              *)
(*                                                                         *)
(* Python floats are modelled as fixed-point numbers with four decimal     *)
(* places (the integer v stands for v / FloatScale) together with the      *)
(* IEEE special values nan, inf and -inf.  Products and quotients are      *)
(* truncated to four decimals.  Overflow of a finite result to inf is not  *)
(* modelled.  Command-line arguments are sequences of one-character        *)
(* strings.                                                                *)
(***************************************************************************)
EXTENDS Integers, Sequences, FiniteSets, TLC

\* ------------------------------------------------------------------ bounds
\* largest number of command-line arguments (after the script name) tried
MaxArgs == 7

\* ------------------------------------------------------- float arithmetic
\* one unit of a modelled float is 1 / FloatScale
FloatScale == 10000

Fin(n) == [k |-> "fin", v |-> n]
NaN == [k |-> "nan", v |-> 0]
Inf(s) == [k |-> "inf", v |-> s]
\* a name that has not been assigned yet (reading it would be a NameError)
Unbound == [k |-> "unbound", v |-> 0]

IsFinite(x) == x.k = "fin"

Abs(n) == IF n < 0 THEN -n ELSE n
Sgn(n) == IF n < 0 THEN -1 ELSE IF n > 0 THEN 1 ELSE 0

\* <<q, r>> with a * b = q * c + r and 0 <= r < c, for a, b >= 0 and c > 0,
\* computed by doubling so that no intermediate exceeds 2 * c + a
RECURSIVE MulDivRem(_, _, _)
MulDivRem(a, b, c) ==
    IF b = 0 THEN <<0, 0>>
    ELSE LET h == MulDivRem(a, b \div 2, c)
             t == 2 * h[2] + (b % 2) * a
         IN  <<2 * h[1] + (t \div c), t % c>>

\* a * b / c truncated toward zero
MulDiv(a, b, c) == Sgn(a) * Sgn(b) * MulDivRem(Abs(a), Abs(b), c)[1]

FNeg(x) ==
    CASE x.k = "fin" -> Fin(-x.v)
      [] x.k = "inf" -> Inf(-x.v)
      [] OTHER -> NaN

FAdd(x, y) ==
    CASE x.k = "nan" \/ y.k = "nan" -> NaN
      [] x.k = "inf" /\ y.k = "inf" -> IF x.v = y.v THEN x ELSE NaN
      [] x.k = "inf" -> x
      [] y.k = "inf" -> y
      [] OTHER -> Fin(x.v + y.v)

FSub(x, y) == FAdd(x, FNeg(y))

FMul(x, y) ==
    CASE x.k = "nan" \/ y.k = "nan" -> NaN
      [] x.k = "inf" \/ y.k = "inf" ->
            IF Sgn(x.v) * Sgn(y.v) = 0 THEN NaN ELSE Inf(Sgn(x.v) * Sgn(y.v))
      [] OTHER -> Fin(MulDiv(x.v, y.v, FloatScale))

\* Python float division; a zero divisor raises ZeroDivisionError
DivRaises(x, y) == y.k = "fin" /\ y.v = 0

FDiv(x, y) ==
    CASE x.k = "nan" \/ y.k = "nan" -> NaN
      [] x.k = "inf" /\ y.k = "inf" -> NaN
      [] x.k = "inf" -> Inf(x.v * (IF y.v < 0 THEN -1 ELSE 1))
      [] y.k = "inf" -> Fin(0)
      [] OTHER -> Fin(Sgn(y.v) * MulDiv(x.v, FloatScale, Abs(y.v)))

\* largest r in lo..hi with r * r <= n
RECURSIVE IsqrtIn(_, _, _)
IsqrtIn(n, lo, hi) ==
    IF lo >= hi THEN lo
    ELSE LET mid == (lo + hi + 1) \div 2
         IN  IF mid * mid <= n THEN IsqrtIn(n, mid, hi)
             ELSE IsqrtIn(n, lo, mid - 1)

\* math.sqrt: ValueError (math domain error) on a negative argument
SqrtRaises(x) == (x.k = "fin" /\ x.v < 0) \/ (x.k = "inf" /\ x.v < 0)

MathSqrt(x) ==
    CASE x.k = "nan" -> NaN
      [] x.k = "inf" -> x
      [] OTHER -> Fin(IsqrtIn(x.v * FloatScale, 0, 40000))

\* ------------------------------------------------------------ trigonometry
MathPi == 31416

\* variant: angles outside [-pi, pi] are rejected as well
MathDomainErrorOutOfRange(x) ==
    x.k = "inf" \/ (x.k = "fin" /\ Abs(x.v) > MathPi)

\* math.sin and math.cos raise ValueError (math domain error) on +-inf
MathDomainError(x) == x.k = "inf"

\* the twelve angles of [0, 2 pi) whose sine and cosine are exact in four
\* decimals (multiples of pi/2 and the angles of the 3-4-5 triangle), and
\* 2 pi itself, as radians -> <<sin, cos>>
TrigTable ==
    (0 :> <<0, 10000>>)      @@ (6435 :> <<6000, 8000>>)
 @@ (9273 :> <<8000, 6000>>) @@ (15708 :> <<10000, 0>>)
 @@ (22143 :> <<8000, -6000>>)  @@ (24981 :> <<6000, -8000>>)
 @@ (31416 :> <<0, -10000>>)    @@ (37851 :> <<-6000, -8000>>)
 @@ (40689 :> <<-8000, -6000>>) @@ (47124 :> <<-10000, 0>>)
 @@ (53559 :> <<-8000, 6000>>)  @@ (56397 :> <<-6000, 8000>>)
 @@ (62832 :> <<0, 10000>>)

\* the table angle nearest to x reduced to [0, 2 pi)
TrigKey(n) ==
    LET a == n % (2 * MathPi)
    IN  CHOOSE key \in DOMAIN TrigTable :
            \A other \in DOMAIN TrigTable :
                Abs(key - a) < Abs(other - a)
                \/ (Abs(key - a) = Abs(other - a) /\ key <= other)

MathSin(x) == IF x.k = "fin" THEN Fin(TrigTable[TrigKey(x.v)][1]) ELSE NaN
MathCos(x) == IF x.k = "fin" THEN Fin(TrigTable[TrigKey(x.v)][2]) ELSE NaN

\* ------------------------------------------------- parsing and formatting
Digits == {"0", "1", "2", "3", "4", "5", "6", "7", "8", "9"}
DigitVal ==
    ("0" :> 0) @@ ("1" :> 1) @@ ("2" :> 2) @@ ("3" :> 3) @@ ("4" :> 4)
 @@ ("5" :> 5) @@ ("6" :> 6) @@ ("7" :> 7) @@ ("8" :> 8) @@ ("9" :> 9)
DigitChar == <<"0", "1", "2", "3", "4", "5", "6", "7", "8", "9">>

AllDigits(s) == \A i \in 1..Len(s) : s[i] \in Digits

RECURSIVE DigitsVal(_)
DigitsVal(s) ==
    IF Len(s) = 0 THEN 0
    ELSE 10 * DigitsVal(SubSeq(s, 1, Len(s) - 1)) + DigitVal[s[Len(s)]]

Unsigned(s) ==
    IF Len(s) > 0 /\ s[1] \in {"-", "+"} THEN SubSeq(s, 2, Len(s)) ELSE s
Negative(s) == Len(s) > 0 /\ s[1] = "-"

DotAt(s) == {i \in 1..Len(s) : s[i] = "."}
IntPart(s) ==
    IF DotAt(s) = {} THEN s
    ELSE SubSeq(s, 1, (CHOOSE i \in DotAt(s) : TRUE) - 1)
FracPart(s) ==
    IF DotAt(s) = {} THEN <<>>
    ELSE SubSeq(s, (CHOOSE i \in DotAt(s) : TRUE) + 1, Len(s))

\* a decimal literal: digits, at most one point, at least one digit
IsDecimal(s) ==
    /\ Cardinality(DotAt(s)) <= 1
    /\ AllDigits(IntPart(s)) /\ AllDigits(FracPart(s))
    /\ Len(IntPart(s)) + Len(FracPart(s)) > 0

\* the first four fractional digits, padded with zeros
FracVal(f) == DigitsVal(SubSeq(f \o <<"0", "0", "0", "0">>, 1, 4))

IsNanText(s) == s = <<"n", "a", "n">>
IsInfText(s) == s = <<"i", "n", "f">>

\* float(text) raises ValueError
FloatRaises(text) ==
    LET u == Unsigned(text)
    IN  ~(IsNanText(u) \/ IsInfText(u) \/ IsDecimal(u))

\* float(text) for a text that float() accepts
Float(text) ==
    LET u == Unsigned(text)
        sign == IF Negative(text) THEN -1 ELSE 1
    IN  IF IsNanText(u) THEN NaN
        ELSE IF IsInfText(u) THEN Inf(sign)
        ELSE Fin(sign * (DigitsVal(IntPart(u)) * FloatScale
                         + FracVal(FracPart(u))))

RECURSIVE NatText(_)
NatText(n) ==
    IF n < 10 THEN <<DigitChar[n + 1]>>
    ELSE NatText(n \div 10) \o <<DigitChar[(n % 10) + 1]>>

\* the fractional digits of f / FloatScale without trailing zeros
RECURSIVE FracText(_, _)
FracText(f, width) ==
    IF f = 0 THEN <<>>
    ELSE IF f % 10 = 0 THEN FracText(f \div 10, width - 1)
    ELSE SubSeq(<<"0", "0", "0", "0">>, 1, width - Len(NatText(f)))
         \o NatText(f)

\* str(x) of a float as print() writes it: shortest decimal, at least one
\* fractional digit
Str(x) ==
    CASE x.k = "nan" -> <<"n", "a", "n">>
      [] x.k = "inf" ->
            (IF x.v < 0 THEN <<"-">> ELSE <<>>) \o <<"i", "n", "f">>
      [] OTHER ->
            LET m == Abs(x.v)
                frac == FracText(m % FloatScale, 4)
            IN  (IF x.v < 0 THEN <<"-">> ELSE <<>>)
                \o NatText(m \div FloatScale) \o <<".">>
                \o (IF frac = <<>> THEN <<"0">> ELSE frac)

\* ------------------------------------------------------------ the script
R_E_KM == 63781363
E_E == 818
E_E_float == [k |-> "fin", v |-> E_E]

UsageLine == <<"python3 sez_to_ecef.py o_lat_deg o_lon_deg o_hae_km s_km e_km z_km">>
ParseErrorLine == <<"Error: lat_deg, long_deg and hae_km must be numeric.">>

\* x ** 2
Square(x) == FMul(x, x)

\* the argument of math.sqrt in calc_denom
Radicand(ecc, lat_rad) ==
    FSub(Fin(FloatScale), FMul(Square(ecc), Square(MathSin(lat_rad))))

\* variant: the cosine of the latitude in place of its sine
calc_denom_cos(ecc, lat_rad) ==
    MathSqrt(FSub(Fin(FloatScale),
                  FMul(Square(ecc), Square(MathCos(lat_rad)))))

calc_denom(ecc, lat_rad) == MathSqrt(Radicand(ecc, lat_rad))

calc_denom_raises(ecc, lat_rad) ==
    MathDomainError(lat_rad) \/ SqrtRaises(Radicand(ecc, lat_rad))

\* degrees * math.pi / 180.0
ToRadians(deg) == FDiv(FMul(deg, Fin(MathPi)), Fin(180 * FloatScale))

\* c_E and s_E for a latitude in radians
CE(lat_rad) == FDiv(Fin(R_E_KM), calc_denom(E_E_float, lat_rad))
SE(lat_rad) ==
    FDiv(FMul(Fin(R_E_KM), FSub(Fin(FloatScale), FMul(E_E_float, E_E_float))),
         calc_denom(E_E_float, lat_rad))

\* variant: r_z_km computed with c_E in place of s_E
OriginVectorCE(lat_rad, long_rad, hae) ==
    << FMul(FMul(FAdd(CE(lat_rad), hae), MathCos(lat_rad)), MathCos(long_rad)),
       FMul(FMul(FAdd(CE(lat_rad), hae), MathCos(lat_rad)), MathSin(long_rad)),
       FMul(FAdd(CE(lat_rad), hae), MathSin(lat_rad)) >>

\* the vector r = [r_x_km, r_y_km, r_z_km]
OriginVector(lat_rad, long_rad, hae) ==
    << FMul(FMul(FAdd(CE(lat_rad), hae), MathCos(lat_rad)), MathCos(long_rad)),
       FMul(FMul(FAdd(CE(lat_rad), hae), MathCos(lat_rad)), MathSin(long_rad)),
       FMul(FAdd(SE(lat_rad), hae), MathSin(lat_rad)) >>

\* an exception escapes the computation of the origin position
OriginRaises(lat_rad, long_rad) ==
    \/ calc_denom_raises(E_E_float, lat_rad)
    \/ DivRaises(Fin(R_E_KM), calc_denom(E_E_float, lat_rad))
    \/ MathDomainError(long_rad)

Zero == Fin(0)
One == Fin(FloatScale)

\* variant: the sign of the lower-left entry lost
RyMatrixNoSign(lat_rad) ==
    << <<MathSin(lat_rad), Zero, MathCos(lat_rad)>>,
       <<Zero, One, Zero>>,
       <<MathCos(lat_rad), Zero, MathSin(lat_rad)>> >>

RyMatrix(lat_rad) ==
    << <<MathSin(lat_rad), Zero, MathCos(lat_rad)>>,
       <<Zero, One, Zero>>,
       <<FNeg(MathCos(lat_rad)), Zero, MathSin(lat_rad)>> >>

RzMatrix(long_rad) ==
    << <<MathCos(long_rad), FNeg(MathSin(long_rad)), Zero>>,
       <<MathSin(long_rad), MathCos(long_rad), Zero>>,
       <<Zero, Zero, One>> >>

\* variant: the vector multiplied from the left (v . M)
DotFromLeft(M, v) ==
    [i \in 1..3 |->
        FAdd(FAdd(FMul(M[1][i], v[1]), FMul(M[2][i], v[2])),
             FMul(M[3][i], v[3]))]

\* np.dot of a 3x3 matrix and a column vector
Dot(M, v) ==
    [i \in 1..3 |->
        FAdd(FAdd(FMul(M[i][1], v[1]), FMul(M[i][2], v[2])),
             FMul(M[i][3], v[3]))]

\* variant: extra arguments tolerated
ArgcAtLeast(av) == Len(av) >= 7

\* len(sys.argv) == 7
ArgcOk(av) == Len(av) = 7

\* variant: only the first three conversions inside the try block
InTryBlockFirstThree(i) == i \in 1..3

\* the conversion of sys.argv[i] is inside the try block
InTryBlock(i) == i \in 1..6

\* ------------------------------------------------------------------- state
VARIABLES argv, pc, status, stdout, arg,
          o_lat_deg, o_lon_deg, o_long_deg, o_hae_km, s_km, e_km, z_km,
          o_lat_rad, o_long_rad, r, r_SEZ, Ry_lat, Rz_long, rot_1, rot_2,
          ecef

inputs == <<o_lat_deg, o_lon_deg, o_long_deg, o_hae_km, s_km, e_km, z_km>>
radians == <<o_lat_rad, o_long_rad>>
work == <<r, r_SEZ, Ry_lat, Rz_long, rot_1, rot_2, ecef>>
vars == <<argv, pc, status, stdout, arg, inputs, radians, work>>

\* argument texts tried in each position
LatTexts ==
    { <<"0">>, <<"9", "0">>, <<"4", "5", "0">>,
      <<"3", "6", ".", "8", "6", "9", "9">>,
      <<"n", "a", "n">>, <<"i", "n", "f">>, <<"4", "5", "d", "e", "g">> }
LonTexts ==
    { <<"0">>, <<"-", "9", "0">>, <<"2", "1", "6", ".", "8", "6", "9", "9">>,
      <<"-", "i", "n", "f">>, <<"e", "a", "s", "t">> }
HaeTexts == { <<"0">>, <<"1", "0", "0">>, <<"n", "a", "n">>, <<"1", "k", "m">> }
SezTexts == { <<"0">>, <<"2", ".", "5">>, <<"-", "3">>, <<"i", "n", "f">>, <<"x">> }
AnyTexts == { <<"0">>, <<"x">> }
ProgName == <<"sez_to_ecef.py">>

SeqsOfLen(S, n) == [1..n -> S]

ArgvSet ==
    { <<ProgName, a, b, c, d, e, f>> :
        a \in LatTexts, b \in LonTexts, c \in HaeTexts,
        d \in SezTexts, e \in SezTexts, f \in SezTexts }
    \cup UNION { { <<ProgName>> \o t : t \in SeqsOfLen(AnyTexts, n) } :
                 n \in (0..MaxArgs) \ {6} }

NoVector == <<Unbound, Unbound, Unbound>>
NoMatrix == <<NoVector, NoVector, NoVector>>

Init ==
    /\ argv \in ArgvSet
    /\ pc = "argc" /\ status = "running" /\ stdout = <<>> /\ arg = 1
    /\ o_lat_deg = NaN /\ o_lon_deg = NaN /\ o_hae_km = NaN
    /\ s_km = NaN /\ e_km = NaN /\ z_km = NaN
    /\ o_long_deg = Unbound
    /\ o_lat_rad = Unbound /\ o_long_rad = Unbound
    /\ r = NoVector /\ r_SEZ = NoVector /\ rot_1 = NoVector
    /\ rot_2 = NoVector /\ ecef = NoVector
    /\ Ry_lat = NoMatrix /\ Rz_long = NoMatrix

\* ----------------------------------------------------------------- actions
\* if len(sys.argv) == 7
CheckArgc ==
    /\ pc = "argc"
    /\ pc' = IF ArgcOk(argv) THEN "parse" ELSE "usage"
    /\ UNCHANGED <<argv, status, stdout, arg, inputs, radians, work>>

\* else: print usage; exit()
PrintUsage ==
    /\ pc = "usage"
    /\ stdout' = Append(stdout, UsageLine)
    /\ pc' = "done" /\ status' = "exit"
    /\ UNCHANGED <<argv, arg, inputs, radians, work>>

\* one assignment of the try block: <name> = float(sys.argv[arg])
ParseArg ==
    /\ pc = "parse"
    /\ IF FloatRaises(argv[arg + 1])
       THEN /\ IF InTryBlock(arg)
                  THEN pc' = "except" /\ UNCHANGED status
                  ELSE pc' = "done" /\ status' = "traceback"
            /\ UNCHANGED <<arg, inputs>>
       ELSE /\ LET x == Float(argv[arg + 1])
               IN  /\ o_lat_deg' = IF arg = 1 THEN x ELSE o_lat_deg
                   /\ o_long_deg' = IF arg = 2 THEN x ELSE o_long_deg
                   /\ o_hae_km' = IF arg = 3 THEN x ELSE o_hae_km
                   /\ s_km' = IF arg = 4 THEN x ELSE s_km
                   /\ e_km' = IF arg = 5 THEN x ELSE e_km
                   /\ z_km' = IF arg = 6 THEN x ELSE z_km
            /\ UNCHANGED o_lon_deg
            /\ IF arg = 6 THEN pc' = "radians" /\ arg' = arg
                          ELSE pc' = "parse" /\ arg' = arg + 1
            /\ UNCHANGED status
    /\ UNCHANGED <<argv, stdout, radians, work>>

\* except ValueError: print error; exit()
ExceptValueError ==
    /\ pc = "except"
    /\ stdout' = Append(stdout, ParseErrorLine)
    /\ pc' = "done" /\ status' = "exit"
    /\ UNCHANGED <<argv, arg, inputs, radians, work>>

\* convert longitude and latitude to radians
ConvertToRadians ==
    /\ pc = "radians"
    /\ o_lat_rad' = ToRadians(o_lat_deg)
    /\ o_long_rad' = ToRadians(o_long_deg)
    /\ pc' = "origin"
    /\ UNCHANGED <<argv, status, stdout, arg, inputs, work>>

\* denominator, c_E, s_E, r and r_SEZ; an uncaught exception ends the run
OriginPosition ==
    /\ pc = "origin"
    /\ IF OriginRaises(o_lat_rad, o_long_rad)
       THEN /\ pc' = "done" /\ status' = "traceback"
            /\ UNCHANGED <<r, r_SEZ>>
       ELSE /\ r' = OriginVector(o_lat_rad, o_long_rad, o_hae_km)
            /\ r_SEZ' = <<s_km, e_km, z_km>>
            /\ pc' = "matrices" /\ UNCHANGED status
    /\ UNCHANGED <<argv, stdout, arg, inputs, radians,
                   Ry_lat, Rz_long, rot_1, rot_2, ecef>>

\* Ry_lat and Rz_long
BuildMatrices ==
    /\ pc = "matrices"
    /\ Ry_lat' = RyMatrix(o_lat_rad)
    /\ Rz_long' = RzMatrix(o_long_rad)
    /\ pc' = "rot_1"
    /\ UNCHANGED <<argv, status, stdout, arg, inputs, radians,
                   r, r_SEZ, rot_1, rot_2, ecef>>

\* rot_1 = np.dot(Ry_lat, r_SEZ)
FirstRotation ==
    /\ pc = "rot_1"
    /\ rot_1' = Dot(Ry_lat, r_SEZ)
    /\ pc' = "rot_2"
    /\ UNCHANGED <<argv, status, stdout, arg, inputs, radians,
                   r, r_SEZ, Ry_lat, Rz_long, rot_2, ecef>>

\* rot_2 = np.dot(Rz_long, rot_1)
SecondRotation ==
    /\ pc = "rot_2"
    /\ rot_2' = Dot(Rz_long, rot_1)
    /\ pc' = "translate"
    /\ UNCHANGED <<argv, status, stdout, arg, inputs, radians,
                   r, r_SEZ, Ry_lat, Rz_long, rot_1, ecef>>

\* ecef_*_km = r[i] + rot_2[i]
Translate ==
    /\ pc = "translate"
    /\ ecef' = [i \in 1..3 |-> FAdd(r[i], rot_2[i])]
    /\ pc' = "print_x"
    /\ UNCHANGED <<argv, status, stdout, arg, inputs, radians,
                   r, r_SEZ, Ry_lat, Rz_long, rot_1, rot_2>>

PrintLine(here, component, next) ==
    /\ pc = here
    /\ stdout' = Append(stdout, Str(ecef[component]))
    /\ pc' = next
    /\ status' = IF next = "done" THEN "exit" ELSE status
    /\ UNCHANGED <<argv, arg, inputs, radians, work>>

\* print(ecef_x_km)
PrintX == PrintLine("print_x", 1, "print_y")
\* print(ecef_y_km)
PrintY == PrintLine("print_y", 2, "print_z")
\* print(ecef_z_km); the script ends
PrintZ == PrintLine("print_z", 3, "done")

Next ==
    \/ CheckArgc \/ PrintUsage \/ ParseArg \/ ExceptValueError
    \/ ConvertToRadians \/ OriginPosition \/ BuildMatrices
    \/ FirstRotation \/ SecondRotation \/ Translate
    \/ PrintX \/ PrintY \/ PrintZ

Spec == Init /\ [][Next]_vars

\* ------------------------------------------------------------- properties
\* the texts of the argument positions 1..6
ArgText(i) == argv[i + 1]
SixArgs == Len(argv) = 7

\* argument texts that are not numbers
JunkTexts ==
    { <<"4", "5", "d", "e", "g">>, <<"e", "a", "s", "t">>,
      <<"1", "k", "m">>, <<"x">> }
\* argument texts that denote finite real numbers
FiniteText(t) == IsDecimal(Unsigned(t))
AllFinite == SixArgs /\ \A i \in 1..6 : FiniteText(ArgText(i))

Succeeded == pc = "done" /\ status = "exit" /\ Len(stdout) = 3
Translated == pc \in {"print_x", "print_y", "print_z"} \/ Succeeded
NumericLine(line) == line \notin {UsageLine, ParseErrorLine}
NothingComputed ==
    /\ o_lat_rad = Unbound /\ o_long_rad = Unbound
    /\ r = NoVector /\ rot_1 = NoVector /\ rot_2 = NoVector
    /\ ecef = NoVector

ZeroText == <<"0">>
Lat37 == <<"3", "6", ".", "8", "6", "9", "9">>
Lon217 == <<"2", "1", "6", ".", "8", "6", "9", "9">>

\* C1: with an argument count other than six, whatever the arguments
\* contain, the run never parses an argument, never computes, prints only
\* the usage line and ends with a clean exit.
C1_UsageOnWrongCount ==
    ~SixArgs =>
        /\ pc \in {"argc", "usage", "done"}
        /\ inputs = <<NaN, NaN, Unbound, NaN, NaN, NaN, NaN>>
        /\ NothingComputed
        /\ \A i \in 1..Len(stdout) : stdout[i] = UsageLine
        /\ pc = "done" => stdout = <<UsageLine>> /\ status = "exit"

C1_Witness ==
    /\ Len(argv) = 8 /\ ArgText(1) = <<"x">> /\ ArgText(2) = <<"0">>
    /\ pc = "done" /\ stdout = <<UsageLine>>

\* C2: with six arguments of which one, in any position, is not a number,
\* the run prints only the parse-error message and ends with a clean exit,
\* also when earlier arguments were converted.
C2_ParseErrorOnJunk ==
    (SixArgs /\ \E i \in 1..6 : ArgText(i) \in JunkTexts) =>
        /\ pc \in {"argc", "parse", "except", "done"}
        /\ NothingComputed
        /\ \A i \in 1..Len(stdout) : stdout[i] = ParseErrorLine
        /\ pc = "done" => stdout = <<ParseErrorLine>> /\ status = "exit"

C2_Witness ==
    /\ SixArgs /\ ArgText(6) = <<"x">>
    /\ \A i \in 1..5 : FiniteText(ArgText(i))
    /\ e_km = Float(ArgText(5))
    /\ pc = "done" /\ stdout = <<ParseErrorLine>>

\* C3: a run with six arguments that all convert prints exactly the three
\* lines x, y, z in this order, and every finished run shows exactly one of
\* usage line, parse-error message, three numeric lines.
C3_ThreeOutcomes ==
    pc = "done" =>
        /\ \/ stdout = <<UsageLine>>
           \/ stdout = <<ParseErrorLine>>
           \/ /\ Len(stdout) = 3
              /\ \A i \in 1..3 : NumericLine(stdout[i])
        /\ (SixArgs /\ \A i \in 1..6 : ~FloatRaises(ArgText(i))) =>
              stdout = <<Str(ecef[1]), Str(ecef[2]), Str(ecef[3])>>

\* C4: for a finite origin and the SEZ vector (0, 0, 0) the result is the
\* origin's own ECEF position ((C_E+h) cos(lat) cos(lon),
\* (C_E+h) cos(lat) sin(lon), (S_E+h) sin(lat)).
C4_ZeroSezGivesOrigin ==
    (Translated /\ AllFinite
     /\ \A i \in 4..6 : Float(ArgText(i)) = Fin(0)) =>
        LET lat == ToRadians(Float(ArgText(1)))
            lon == ToRadians(Float(ArgText(2)))
            h == Float(ArgText(3))
        IN  /\ rot_2 = <<Fin(0), Fin(0), Fin(0)>>
            /\ ecef[1] = FMul(FMul(FAdd(CE(lat), h), MathCos(lat)),
                              MathCos(lon))
            /\ ecef[2] = FMul(FMul(FAdd(CE(lat), h), MathCos(lat)),
                              MathSin(lon))
            /\ ecef[3] = FMul(FAdd(SE(lat), h), MathSin(lat))

C4_Witness ==
    /\ Succeeded /\ SixArgs
    /\ ArgText(1) = Lat37 /\ ArgText(2) = Lon217
    /\ ArgText(3) = <<"1", "0", "0">>
    /\ \A i \in 4..6 : ArgText(i) = ZeroText
    /\ ecef = r /\ ecef[3].v > 0

\* C5: origin lat = 0, lon = 0, hae = 0 with SEZ = (0, 0, 0) gives
\* (6378.1363, 0, 0).
C5_KnownValue ==
    (pc = "done" /\ SixArgs /\ \A i \in 1..6 : ArgText(i) = ZeroText) =>
        /\ ecef = <<Fin(63781363), Fin(0), Fin(0)>>
        /\ stdout = << <<"6", "3", "7", "8", ".", "1", "3", "6", "3">>,
                       <<"0", ".", "0">>, <<"0", ".", "0">> >>

C5_Witness ==
    /\ Succeeded /\ SixArgs /\ \A i \in 1..6 : ArgText(i) = ZeroText
    /\ ecef[1] = Fin(R_E_KM)

C8_FiniteOutput ==
    Succeeded => \A i \in 1..3 : IsFinite(ecef[i])

\* C9: for finite inputs the result is r + Rz(lon) (Ry(lat) sez), the
\* latitude rotation first:
\*   x = r_x + cos(lon) (sin(lat) s + cos(lat) z) - sin(lon) e
\*   y = r_y + sin(lon) (sin(lat) s + cos(lat) z) + cos(lon) e
\*   z = r_z - cos(lat) s + sin(lat) z
\* with lon taken from the second argument.
C9_RotateThenTranslate ==
    (Translated /\ AllFinite) =>
        LET lat == ToRadians(Float(ArgText(1)))
            lon == ToRadians(Float(ArgText(2)))
            s == Float(ArgText(4))
            e == Float(ArgText(5))
            z == Float(ArgText(6))
            inner == FAdd(FMul(MathSin(lat), s), FMul(MathCos(lat), z))
        IN  /\ ecef[1] = FAdd(r[1], FSub(FMul(MathCos(lon), inner),
                                         FMul(MathSin(lon), e)))
            /\ ecef[2] = FAdd(r[2], FAdd(FMul(MathSin(lon), inner),
                                         FMul(MathCos(lon), e)))
            /\ ecef[3] = FAdd(r[3], FAdd(FNeg(FMul(MathCos(lat), s)),
                                         FMul(MathSin(lat), z)))
            /\ r = OriginVector(lat, lon, Float(ArgText(3)))

C9_Witness ==
    /\ Succeeded /\ AllFinite
    /\ ArgText(1) = Lat37 /\ ArgText(2) = Lon217
    /\ ArgText(4) = <<"2", ".", "5">> /\ ArgText(5) = <<"-", "3">>
    /\ ArgText(6) = <<"2", ".", "5">>
    /\ ecef # r /\ rot_2 # rot_1

Transpose(M) == [i \in 1..3 |-> [j \in 1..3 |-> M[j][i]]]
MatMul(A, B) ==
    [i \in 1..3 |-> [j \in 1..3 |->
        FAdd(FAdd(FMul(A[i][1], B[1][j]), FMul(A[i][2], B[2][j])),
             FMul(A[i][3], B[3][j]))]]
Identity == << <<One, Zero, Zero>>, <<Zero, One, Zero>>, <<Zero, Zero, One>> >>
MatricesBuilt == pc \in {"rot_1", "rot_2", "translate"} \/ Translated

\* C10: Ry(lat) and Rz(lon) as built are orthogonal, and a rotation
\* followed by its transpose returns the SEZ vector.
C10_RotationsOrthogonal ==
    (MatricesBuilt /\ AllFinite) =>
        /\ MatMul(Transpose(Ry_lat), Ry_lat) = Identity
        /\ MatMul(Ry_lat, Transpose(Ry_lat)) = Identity
        /\ MatMul(Transpose(Rz_long), Rz_long) = Identity
        /\ MatMul(Rz_long, Transpose(Rz_long)) = Identity
        /\ Dot(Transpose(Ry_lat), Dot(Ry_lat, r_SEZ)) = r_SEZ
        /\ Dot(Transpose(Rz_long), Dot(Rz_long, r_SEZ)) = r_SEZ

C10_Witness ==
    /\ Succeeded /\ AllFinite
    /\ ArgText(1) = Lat37 /\ ArgText(2) = Lon217
    /\ r_SEZ = <<Fin(25000), Fin(-30000), Fin(25000)>>
    /\ Ry_lat[1][1] = Fin(6000) /\ Rz_long[1][1] = Fin(-8000)

====
